---- MODULE Spec2Model ----
(***************************************************************************)
(* State-machine model of the UEFI boot loader in src/src/main.rs:         *)
(* efi_main, read_file, load_elf, load_section and panic_fmt.              *)
(*                                                                         *)
(* The program is one sequential thread; pc is its position.  Every call   *)
(* into the firmware is one step and is recorded in the history variable   *)
(* ops, so that ordering properties are state predicates.  The firmware    *)
(* and the disk are the environment: each firmware call may succeed or     *)
(* return an error status, and the volumes and the image are drawn from    *)
(* bounded sets.                                                           *)
(*                                                                         *)
(* Addresses and sizes are u64 in the source.  The model keeps the         *)
(* modular arithmetic but scales the width to AddrBits bits; the page      *)
(* size, mask and shift are those of the source.                           *)
(***************************************************************************)
EXTENDS Naturals, Sequences, FiniteSets

\* ---------------------------------------------------------------- bounds
MaxVols == 2
MaxHeaders == 2
MaxConsoleFail == 1
AddrBits == 24
MaxSpanPages == 2
MaxImageBytes == 65536

\* ------------------------------------------------------ program constants
PageSize == 4096
PageMask == 4095
PageShift == 12

RECURSIVE Pow2(_)
Pow2(n) == IF n = 0 THEN 1 ELSE 2 * Pow2(n - 1)

\* 2^w for the scaled word width: u64/usize arithmetic wraps modulo this.
Modulus == Pow2(AddrBits)

\* x >> PageShift
ShiftRight12(x) == x \div Pow2(PageShift)

\* header.virtual_addr & !0x0fff
AlignDown(v) == v - (v % (PageMask + 1))

\* header.virtual_addr & 0x0fff
Padding(v) == v % (PageMask + 1)

\* "EFISys", the label read_file is called with
VolumeLabel == "EFISys"

\* ---------------------------------------------------------- environment
\* A file system the firmware enumerates: the label it carries, and whether
\* open_protocol/open_volume fails on it ("open"), get_info/volume_label fails
\* on it ("label"), or both work ("none").
Labels == {"EFISys", "EFISYS"}
Faults == {"none", "open", "label"}
AllVolumeKinds == [label : Labels, fault : Faults]

\* What the label of a faulty volume is makes no difference to the run, so
\* the whole-program specification gives faulty volumes one label.
VolumeKinds == { v \in AllVolumeKinds : v.fault = "none" \/ v.label = "EFISYS" }

\* Error statuses a firmware call may return.
FwErrors == {"OutOfResources"}

\* Program headers of the image.  width is the ELF class of the file (all
\* entries of one file share it); kind is the outcome of get_type().
\* Shapes of loadable segments (V = virtual_addr, F = file_size, M = mem_size):
\*   F < M (a segment with .bss), F = M with padding, a padded span that is
\*   an exact multiple of the page size, and a mem_size whose sum with the
\*   padding exceeds the word.
LoadShapes ==
    { [V |-> 1048576, F |-> 16,   M |-> 32],
      [V |-> 1052752, F |-> 8,    M |-> 8],
      [V |-> 1056848, F |-> 4016, M |-> 4016],
      [V |-> 1064961, F |-> 8,    M |-> Modulus - 1] }

Headers64 ==
    { [width |-> 64, kind |-> "Load", V |-> s.V, F |-> s.F, M |-> s.M] : s \in LoadShapes }
    \cup { [width |-> 64, kind |-> k, V |-> 1052752, F |-> 8, M |-> 8] : k \in {"Other", "Err"} }

Headers32 == { [width |-> 32, kind |-> "Load", V |-> 1052752, F |-> 8, M |-> 8] }

SeqsUpTo(S, n) == UNION { [1..k -> S] : k \in 0..n }

Images == SeqsUpTo(Headers64, MaxHeaders) \cup SeqsUpTo(Headers32, MaxHeaders)

\* Source bytes of segment i (header.raw_data): nonzero, so that copied
\* bytes differ from zero-filled ones.
SrcByte(i, k) == 1 + ((31 * i + k) % 255)

\* ----------------------------------------------------------------- state
VARIABLES
    pc,            \* position of the thread of control
    volumes,       \* the file systems the firmware enumerates, in order
    volIdx,        \* next handle the filter_map/find chain looks at
    volRoot,       \* index of the volume found (vol_root), 0 = none
    imageRead,     \* file_buf holds the image
    headers,       \* the program headers of the image that was read
    phIdx,         \* index of the program header load_elf is at
    destination,   \* local of load_section
    numPages,      \* local of load_section
    allocs,        \* page allocations made by the firmware
    mem,           \* writes to physical memory, oldest first
    ops,           \* history: firmware calls and memory copies, in order
    console,       \* text written to the console
    consoleFails,  \* number of failed console writes the history records
    conOut,        \* the console device: "working", or "dead" when every
                   \* write to it fails
    fwKey,         \* the firmware's current memory-map key
    mapKey,        \* mem_map.key, 0 = no map
    err,           \* the error status of the step that failed ("none")
    entry,         \* the entry point returned by load_elf ("none")
    panicCause,    \* what raised the first panic ("none")
    overflowChecks \* the build: arithmetic overflow panics ("on") or wraps
                   \* ("off"); "unknown" until the first overflow shows it

vars == <<pc, volumes, volIdx, volRoot, imageRead, headers, phIdx, destination,
          numPages, allocs, mem, ops, console, consoleFails, conOut, fwKey,
          mapKey, err, entry, panicCause, overflowChecks>>

Init ==
    /\ pc = "start"
    /\ volumes \in SeqsUpTo(VolumeKinds, MaxVols)
    /\ volIdx = 0
    /\ volRoot = 0
    /\ imageRead = FALSE
    /\ headers = << >>
    /\ phIdx = 0
    /\ destination = 0
    /\ numPages = 0
    /\ allocs = << >>
    /\ mem = << >>
    /\ ops = << >>
    /\ console = << >>
    /\ consoleFails = 0
    /\ conOut \in {"working", "dead"}
    /\ fwKey = 1
    /\ mapKey = 0
    /\ err = "none"
    /\ entry = "none"
    /\ panicCause = "none"
    /\ overflowChecks = "unknown"

\* -------------------------------------------------------------- helpers
Op(op, st, msg, x, y, n) ==
    [op |-> op, st |-> st, msg |-> msg, x |-> x, y |-> y, n |-> n]

\* Firmware calls that allocate memory and so change the memory-map key.
Allocating ==
    {"con_out", "locate_handle", "volume_label", "str_to_utf16", "file_info",
     "allocate_slice", "allocate_pages"}

\* One call into the firmware, returning status st.
FwCall(op, st, x, y, n) ==
    /\ ops' = Append(ops, Op(op, st, "", x, y, n))
    /\ fwKey' = IF st = "ok" /\ op \in Allocating THEN fwKey + 1 ELSE fwKey

\* panic!(): control passes to panic_fmt and never comes back.
Panic(cause) ==
    /\ pc' = "panic1"
    /\ panicCause' = IF panicCause = "none" THEN cause ELSE panicCause

\* efi_println!: write to con_out; .expect() panics when the write fails.
\* A working console fails at most MaxConsoleFail times, a dead one always;
\* the history records the first MaxConsoleFail failures.
Println(msg, next) ==
    /\ \/ /\ conOut = "working"
          /\ ops' = Append(ops, Op("con_out", "ok", msg, 0, 0, 0))
          /\ console' = Append(console, msg)
          /\ fwKey' = fwKey + 1
          /\ pc' = next
          /\ UNCHANGED consoleFails
       \/ /\ conOut = "dead" \/ consoleFails < MaxConsoleFail
          /\ IF consoleFails < MaxConsoleFail
             THEN /\ ops' = Append(ops, Op("con_out", "DeviceError", msg, 0, 0, 0))
                  /\ consoleFails' = consoleFails + 1
             ELSE UNCHANGED <<ops, consoleFails>>
          /\ pc' = "expect_failed"
          /\ UNCHANGED <<console, fwKey>>
    /\ UNCHANGED <<conOut, panicCause>>

fileVars == <<volumes, volIdx, volRoot, imageRead, headers>>
loadVars == <<phIdx, destination, numPages, allocs, mem, overflowChecks>>
outVars == <<console, consoleFails, conOut, panicCause>>

\* ---------------------------------------------------------------- memory
\* The byte at address a after the writes in mem: the latest write covering
\* a decides; 256 stands for memory never written.
Covering(a) == { k \in DOMAIN mem : mem[k].lo <= a /\ a < mem[k].lo + mem[k].len }

ByteAt(a) ==
    IF Covering(a) = {} THEN 256
    ELSE LET k == CHOOSE m \in Covering(a) : \A n \in Covering(a) : n <= m
         IN  IF mem[k].kind = "zero" THEN 0 ELSE SrcByte(mem[k].seg, a - mem[k].lo)

\* ------------------------------------------------ efi_main: acquisition
\* efi_println!("Reading kernel from EFISys")
PrintReading ==
    /\ pc = "start"
    /\ Println("Reading kernel from EFISys", "locate_handle")
    /\ UNCHANGED <<fileVars, loadVars, mapKey, err, entry>>

\* read_file: locate_handle(ByProtocol, SimpleFileSystem)?
LocateHandle ==
    /\ pc = "locate_handle"
    /\ \/ /\ FwCall("locate_handle", "ok", 0, 0, Len(volumes))
          /\ volIdx' = 1
          /\ pc' = "open_volume"
          /\ UNCHANGED err
       \/ \E e \in FwErrors :
             /\ FwCall("locate_handle", e, 0, 0, 0)
             /\ err' = e
             /\ pc' = "read_failed"
             /\ UNCHANGED volIdx
    /\ UNCHANGED <<volumes, volRoot, imageRead, headers, loadVars, outVars, mapKey, entry>>

\* read_file: the filter_map closure on the next handle, or .ok_or(NotFound)
\* when the handles are exhausted.  A volume that cannot be opened is skipped.
OpenVolume ==
    /\ pc = "open_volume"
    /\ IF volIdx > Len(volumes)
       THEN /\ err' = "NotFound"
            /\ pc' = "read_failed"
            /\ UNCHANGED <<ops, fwKey, volIdx>>
       ELSE IF volumes[volIdx].fault = "open"
       THEN /\ FwCall("open_volume", "DeviceError", volIdx, 0, 0)
            /\ volIdx' = volIdx + 1
            /\ UNCHANGED <<pc, err>>
       ELSE /\ FwCall("open_volume", "ok", volIdx, 0, 0)
            /\ pc' = "volume_label"
            /\ UNCHANGED <<volIdx, err>>
    /\ UNCHANGED <<volumes, volRoot, imageRead, headers, loadVars, outVars, mapKey, entry>>

\* LabelMatches, comparing without regard to case.
LabelMatches_IgnoreCase(label) == label \in {"EFISys", "EFISYS"}

\* label == volume_label
LabelMatches(label) == label = VolumeLabel

\* read_file: the find closure on the root just opened.  A label that cannot
\* be queried counts as no match (unwrap_or(false)).
CheckVolumeLabel ==
    /\ pc = "volume_label"
    /\ IF volumes[volIdx].fault = "label"
       THEN /\ FwCall("volume_label", "DeviceError", volIdx, 0, 0)
            /\ volIdx' = volIdx + 1
            /\ pc' = "open_volume"
            /\ UNCHANGED volRoot
       ELSE /\ FwCall("volume_label", "ok", volIdx, 0, 0)
            /\ IF LabelMatches(volumes[volIdx].label)
               THEN /\ volRoot' = volIdx
                    /\ pc' = "str_to_utf16"
                    /\ UNCHANGED volIdx
               ELSE /\ volIdx' = volIdx + 1
                    /\ pc' = "open_volume"
                    /\ UNCHANGED volRoot
    /\ UNCHANGED <<volumes, imageRead, headers, loadVars, outVars, mapKey, err, entry>>

\* One `?` step of read_file on the volume found: the call succeeds and
\* read_file goes on, or its error status is returned.
ReadStep(here, op, next) ==
    /\ pc = here
    /\ \/ /\ FwCall(op, "ok", volRoot, 0, 0)
          /\ pc' = next
          /\ UNCHANGED err
       \/ \E e \in FwErrors :
             /\ FwCall(op, e, volRoot, 0, 0)
             /\ err' = e
             /\ pc' = "read_failed"
    /\ UNCHANGED <<volumes, volIdx, volRoot, headers, loadVars, outVars, mapKey, entry>>

\* str_to_utf16(file_name, boot_services)?
StrToUtf16 == ReadStep("str_to_utf16", "str_to_utf16", "open_file") /\ UNCHANGED imageRead

\* vol_root.open(path, READ, empty)?
OpenFile == ReadStep("open_file", "open_file", "file_info") /\ UNCHANGED imageRead

\* file.get_info::<FileInfo>()?
GetFileInfo == ReadStep("file_info", "file_info", "allocate_slice") /\ UNCHANGED imageRead

\* boot_services.allocate_slice::<u8>(file_size)?
AllocateSlice == ReadStep("allocate_slice", "allocate_slice", "file_read") /\ UNCHANGED imageRead

\* file.read(&mut file_buf)?; Ok(file_buf)
FileRead ==
    /\ ReadStep("file_read", "file_read", "print_parsing")
    /\ imageRead' = (pc' = "print_parsing")

\* Err(err) => efi_println!("Failed to read kernel"); loop { }
PrintReadFailed ==
    /\ pc = "read_failed"
    /\ Println("Failed to read kernel", "halted")
    /\ UNCHANGED <<fileVars, loadVars, mapKey, err, entry>>

\* ------------------------------------------------- efi_main: validation
\* efi_println!("Parsing ELF image and performing sanity check")
PrintParsing ==
    /\ pc = "print_parsing"
    /\ Println("Parsing ELF image and performing sanity check", "elf_new")
    /\ UNCHANGED <<fileVars, loadVars, mapKey, err, entry>>

\* ElfFile::new(&mut file_buf): the parsed file shows its program headers.
ElfNew ==
    /\ pc = "elf_new"
    /\ \/ /\ headers' \in Images
          /\ pc' = "sanity_check"
          /\ UNCHANGED err
       \/ /\ err' = "ParseError"
          /\ pc' = "parse_failed"
          /\ UNCHANGED headers
    /\ UNCHANGED <<volumes, volIdx, volRoot, imageRead, loadVars, outVars, ops,
                   fwKey, mapKey, entry>>

\* Err(err) => efi_println!("Failed to parse ELF image"); loop { }
PrintParseFailed ==
    /\ pc = "parse_failed"
    /\ Println("Failed to parse ELF image", "halted")
    /\ UNCHANGED <<fileVars, loadVars, mapKey, err, entry>>

\* header::sanity_check(&elf)
SanityCheck ==
    /\ pc = "sanity_check"
    /\ \/ /\ pc' = "print_loading"
          /\ UNCHANGED err
       \/ /\ err' = "SanityError"
          /\ pc' = "sanity_failed"
    /\ UNCHANGED <<fileVars, loadVars, outVars, ops, fwKey, mapKey, entry>>

\* efi_println!("ELF sanity check failed"); loop { }
PrintSanityFailed ==
    /\ pc = "sanity_failed"
    /\ Println("ELF sanity check failed", "halted")
    /\ UNCHANGED <<fileVars, loadVars, mapKey, err, entry>>

\* efi_println!("Loading kernel into memory"); load_elf(&elf, system_table)
PrintLoading ==
    /\ pc = "print_loading"
    /\ Println("Loading kernel into memory", "load_elf")
    /\ phIdx' = IF pc' = "load_elf" THEN 1 ELSE phIdx
    /\ UNCHANGED <<fileVars, destination, numPages, allocs, mem, overflowChecks,
                   mapKey, err, entry>>

\* ------------------------------------------------------------- load_elf
\* The program header load_elf / load_section is working on.
Hdr == headers[phIdx]

\* SkipSection, reserving a page for the skipped entry all the same.
SkipSection_Allocates ==
    /\ phIdx' = phIdx + 1
    /\ pc' = "load_elf"
    /\ FwCall("allocate_pages", "ok", AlignDown(Hdr.V), AlignDown(Hdr.V), 1)
    /\ allocs' = Append(allocs, [base |-> AlignDown(Hdr.V), pages |-> 1,
                                 type |-> "LoaderCode", seg |-> phIdx])
    /\ UNCHANGED <<destination, numPages, mem, overflowChecks, outVars, err>>

\* Ok(_) => return Ok(()): a readable kind that is not Load is skipped.
SkipSection ==
    /\ phIdx' = phIdx + 1
    /\ pc' = "load_elf"
    /\ UNCHANGED <<destination, numPages, allocs, mem, overflowChecks, ops, fwKey,
                   outVars, err>>

\* LoadElfNext, without the rejection of the 32-bit width.
LoadElfNext_NoWidthCheck ==
    /\ pc = "load_elf"
    /\ IF phIdx > Len(headers)
       THEN pc' = "print_entry"
       ELSE pc' = "get_type"
    /\ UNCHANGED <<fileVars, loadVars, outVars, ops, fwKey, mapKey, err, entry>>

\* for header in elf_file.program_iter(): the next entry, Ph32 => Unsupported,
\* Ph64 => load_section; past the last entry the loop ends.
LoadElfNext ==
    /\ pc = "load_elf"
    /\ IF phIdx > Len(headers)
       THEN /\ pc' = "print_entry"
            /\ UNCHANGED err
       ELSE IF Hdr.width = 32
       THEN /\ err' = "Unsupported"
            /\ pc' = "load_failed"
       ELSE /\ pc' = "get_type"
            /\ UNCHANGED err
    /\ UNCHANGED <<fileVars, loadVars, outVars, ops, fwKey, mapKey, entry>>

\* GetType, passing over an entry whose kind cannot be read.
GetType_SkipUnreadable ==
    /\ pc = "get_type"
    /\ IF Hdr.kind = "Load"
       THEN /\ pc' = "compute"
            /\ UNCHANGED <<loadVars, outVars, ops, fwKey, err>>
       ELSE SkipSection
    /\ UNCHANGED <<fileVars, mapKey, entry>>

\* load_section: match header.get_type()
GetType ==
    /\ pc = "get_type"
    /\ CASE Hdr.kind = "Err" ->
              /\ pc' = "print_type_err"
              /\ UNCHANGED <<loadVars, outVars, ops, fwKey, err>>
         [] Hdr.kind = "Load" ->
              /\ pc' = "compute"
              /\ UNCHANGED <<loadVars, outVars, ops, fwKey, err>>
         [] OTHER -> SkipSection
    /\ UNCHANGED <<fileVars, mapKey, entry>>

\* efi_println!("Failed to read section type"); return Err(InvalidParameter)
PrintTypeErr ==
    /\ pc = "print_type_err"
    /\ Println("Failed to read section type", "load_failed")
    /\ err' = IF pc' = "load_failed" THEN "InvalidParameter" ELSE err
    /\ UNCHANGED <<fileVars, loadVars, mapKey, entry>>

\* header.mem_size + padding, in u64
AddOverflows(h) == h.M + Padding(h.V) >= Modulus
TotalBytes(h) == (h.M + Padding(h.V)) % Modulus

\* NumPages, rounding the span up to whole pages instead.
NumPages_RoundUp(h) == ShiftRight12(TotalBytes(h) + PageMask)

\* (1 + (total_bytes >> 12)) as usize
NumPages(h) == 1 + ShiftRight12(TotalBytes(h))

\* An arithmetic overflow: a build with overflow checks panics, a build
\* without them wraps.  One run is one build.
OverflowPanics(cause) ==
    /\ overflowChecks # "off"
    /\ overflowChecks' = "on"
    /\ Panic(cause)

OverflowWraps ==
    /\ overflowChecks # "on"
    /\ overflowChecks' = "off"

\* load_section: destination and num_pages
ComputePlacement ==
    /\ pc = "compute"
    /\ \/ /\ AddOverflows(Hdr)
          /\ OverflowPanics("add_overflow")
          /\ UNCHANGED <<destination, numPages>>
       \/ /\ IF AddOverflows(Hdr) THEN OverflowWraps ELSE UNCHANGED overflowChecks
          /\ destination' = AlignDown(Hdr.V)
          /\ numPages' = NumPages(Hdr)
          /\ pc' = "allocate_pages"
          /\ UNCHANGED panicCause
    /\ UNCHANGED <<fileVars, phIdx, allocs, mem, console, consoleFails, conOut, ops, fwKey,
                   mapKey, err, entry>>

\* The pages the firmware hands out exist: they end within the address space.
Addressable(base, pages) == base + pages * PageSize <= Modulus

\* AllocatePages, calling allocate_pages a second time when it fails.
AllocatePages_Retry ==
    /\ pc = "allocate_pages"
    /\ \/ \E got \in {destination, destination + PageSize} :
             /\ Addressable(got, numPages)
             /\ FwCall("allocate_pages", "ok", destination, got, numPages)
             /\ allocs' = Append(allocs, [base |-> got, pages |-> numPages,
                                          type |-> "LoaderCode", seg |-> phIdx])
             /\ destination' = got
             /\ pc' = "assert"
             /\ UNCHANGED err
       \/ \E e \in FwErrors :
             /\ FwCall("allocate_pages", e, destination, 0, numPages)
             /\ IF ops # << >> /\ ops[Len(ops)].op = "allocate_pages"
                   /\ ops[Len(ops)].st # "ok"
                THEN err' = e /\ pc' = "load_failed"
                ELSE UNCHANGED <<err, pc>>
             /\ UNCHANGED <<allocs, destination>>
    /\ UNCHANGED <<fileVars, phIdx, numPages, mem, overflowChecks, outVars, mapKey, entry>>

\* allocate_pages(AllocateAddress, LoaderCode, num_pages, &mut destination)?
\* The firmware writes the base it allocated back into destination.
AllocatePages ==
    /\ pc = "allocate_pages"
    /\ \/ \E got \in {destination, destination + PageSize} :
             /\ Addressable(got, numPages)
             /\ FwCall("allocate_pages", "ok", destination, got, numPages)
             /\ allocs' = Append(allocs, [base |-> got, pages |-> numPages,
                                          type |-> "LoaderCode", seg |-> phIdx])
             /\ destination' = got
             /\ pc' = "assert"
             /\ UNCHANGED err
       \/ \E e \in FwErrors :
             /\ FwCall("allocate_pages", e, destination, 0, numPages)
             /\ err' = e
             /\ pc' = "load_failed"
             /\ UNCHANGED <<allocs, destination>>
    /\ UNCHANGED <<fileVars, phIdx, numPages, mem, overflowChecks, outVars, mapKey, entry>>

\* AssertDestination, without the assertion.
AssertDestination_Missing ==
    /\ pc = "assert"
    /\ pc' = "set_mem"
    /\ UNCHANGED <<fileVars, loadVars, outVars, ops, fwKey, mapKey, err, entry>>

\* assert!(destination as u64 == header.virtual_addr & !0x0fff)
AssertDestination ==
    /\ pc = "assert"
    /\ IF destination = AlignDown(Hdr.V)
       THEN pc' = "set_mem" /\ UNCHANGED panicCause
       ELSE Panic("assert")
    /\ UNCHANGED <<fileVars, loadVars, console, consoleFails, conOut, ops, fwKey, mapKey,
                   err, entry>>

\* num_pages * 4096, in usize
MulOverflows == numPages * PageSize >= Modulus
ZeroLen == (numPages * PageSize) % Modulus

\* SetMem, zeroing the first page only.
SetMem_OnePage ==
    /\ pc = "set_mem"
    /\ mem' = Append(mem, [kind |-> "zero", lo |-> destination, len |-> PageSize,
                           seg |-> phIdx])
    /\ ops' = Append(ops, Op("set_mem", "ok", "", destination, 0, PageSize))
    /\ pc' = "copy"
    /\ UNCHANGED <<fileVars, phIdx, destination, numPages, allocs, overflowChecks,
                   outVars, fwKey, mapKey, err, entry>>

\* set_mem(destination, num_pages * 4096, 0)
SetMem ==
    /\ pc = "set_mem"
    /\ \/ /\ MulOverflows
          /\ OverflowPanics("mul_overflow")
          /\ UNCHANGED <<mem, ops>>
       \/ /\ IF MulOverflows THEN OverflowWraps ELSE UNCHANGED overflowChecks
          /\ mem' = Append(mem, [kind |-> "zero", lo |-> destination,
                                 len |-> ZeroLen, seg |-> phIdx])
          /\ ops' = Append(ops, Op("set_mem", "ok", "", destination, 0, ZeroLen))
          /\ pc' = "copy"
          /\ UNCHANGED panicCause
    /\ UNCHANGED <<fileVars, phIdx, destination, numPages, allocs, console,
                   consoleFails, conOut, fwKey, mapKey, err, entry>>

\* header.raw_data(elf_file) is a slice of the file buffer: it panics when
\* file_size reaches past the end of the image.
RawDataOk(h) == h.F <= MaxImageBytes

\* copy_from_slice panics unless dst_buf (mem_size bytes) and raw_data
\* (file_size bytes) have the same length.
CopyLenOk(h) == h.M = h.F

\* dst_buf.copy_from_slice(header.raw_data(elf_file)); Ok(())
CopySegment ==
    /\ pc = "copy"
    /\ IF ~RawDataOk(Hdr)
       THEN /\ Panic("raw_data")
            /\ UNCHANGED <<mem, ops, phIdx>>
       ELSE IF CopyLenOk(Hdr)
       THEN /\ mem' = Append(mem, [kind |-> "copy", lo |-> Hdr.V, len |-> Hdr.F,
                                   seg |-> phIdx])
            /\ ops' = Append(ops, Op("copy", "ok", "", Hdr.V, 0, Hdr.F))
            /\ phIdx' = phIdx + 1
            /\ pc' = "load_elf"
            /\ UNCHANGED panicCause
       ELSE /\ Panic("copy_len")
            /\ UNCHANGED <<mem, ops, phIdx>>
    /\ UNCHANGED <<fileVars, destination, numPages, allocs, overflowChecks, console,
                   consoleFails, conOut, fwKey, mapKey, err, entry>>

\* efi_println!("Entry point: {:x}"); Ok(mem::transmute(entry_point))
PrintEntry ==
    /\ pc = "print_entry"
    /\ Println("Entry point", "print_retrieving")
    /\ entry' = IF pc' = "print_retrieving" THEN "fn" ELSE entry
    /\ UNCHANGED <<fileVars, loadVars, mapKey, err>>

\* PrintLoadFailed, halting without the diagnostic.
PrintLoadFailed_Silent ==
    /\ pc = "load_failed"
    /\ pc' = "halted"
    /\ UNCHANGED <<fileVars, loadVars, outVars, ops, fwKey, mapKey, err, entry>>

\* Err(err) => efi_println!("Failed to load kernel"); loop { }
PrintLoadFailed ==
    /\ pc = "load_failed"
    /\ Println("Failed to load kernel", "halted")
    /\ UNCHANGED <<fileVars, loadVars, mapKey, err, entry>>

\* ---------------------------------------------------- efi_main: handoff
\* efi_println!("Retrieving memory map")
PrintRetrieving ==
    /\ pc = "print_retrieving"
    /\ Println("Retrieving memory map", "get_memory_map")
    /\ UNCHANGED <<fileVars, loadVars, mapKey, err, entry>>

\* GetMemoryMap, followed by a progress message on the console.
GetMemoryMap_ThenPrint ==
    /\ pc = "get_memory_map"
    /\ ops' = ops \o << Op("get_memory_map", "ok", "", fwKey, 0, 0),
                        Op("con_out", "ok", "Memory map retrieved", 0, 0, 0) >>
    /\ console' = Append(console, "Memory map retrieved")
    /\ mapKey' = fwKey
    /\ fwKey' = fwKey + 1
    /\ pc' = "exit_boot_services"
    /\ UNCHANGED <<fileVars, loadVars, consoleFails, conOut, panicCause, err, entry>>

\* boot_services.get_memory_map(): the map carries the firmware's current key.
GetMemoryMap ==
    /\ pc = "get_memory_map"
    /\ \/ /\ ops' = Append(ops, Op("get_memory_map", "ok", "", fwKey, 0, 0))
          /\ mapKey' = fwKey
          /\ pc' = "exit_boot_services"
          /\ UNCHANGED err
       \/ \E e \in FwErrors :
             /\ ops' = Append(ops, Op("get_memory_map", e, "", 0, 0, 0))
             /\ err' = e
             /\ pc' = "map_failed"
             /\ UNCHANGED mapKey
    /\ UNCHANGED <<fileVars, loadVars, outVars, fwKey, entry>>

\* Err(err) => efi_println!("Failed to retrieve memory map"); loop { }
PrintMapFailed ==
    /\ pc = "map_failed"
    /\ Println("Failed to retrieve memory map", "halted")
    /\ UNCHANGED <<fileVars, loadVars, mapKey, err, entry>>

\* ExitKey, with a key that is not the one of the map just retrieved.
ExitKey_Stale == mapKey + 1

\* The key efi_main passes to exit_boot_services: mem_map.key
ExitKey == mapKey

\* ExitBootServices, going on to the entry point whatever the call returns.
ExitBootServices_IgnoreError ==
    /\ pc = "exit_boot_services"
    /\ \/ /\ ExitKey = fwKey
          /\ ops' = Append(ops, Op("exit_boot_services", "ok", "", ExitKey, 0, 0))
       \/ ops' = Append(ops, Op("exit_boot_services", "InvalidParameter", "",
                                ExitKey, 0, 0))
    /\ pc' = "call_entry"
    /\ UNCHANGED <<fileVars, loadVars, outVars, fwKey, mapKey, err, entry>>

\* boot_services.exit_boot_services(image_handle, mem_map.key).  The firmware
\* accepts only its current key, and may refuse even that one (its own
\* events can change the map between the two calls).
ExitBootServices ==
    /\ pc = "exit_boot_services"
    /\ \/ /\ ExitKey = fwKey
          /\ ops' = Append(ops, Op("exit_boot_services", "ok", "", ExitKey, 0, 0))
          /\ pc' = "call_entry"
          /\ UNCHANGED err
       \/ /\ ops' = Append(ops, Op("exit_boot_services", "InvalidParameter", "",
                                   ExitKey, 0, 0))
          /\ err' = "InvalidParameter"
          /\ pc' = "exit_failed"
    /\ UNCHANGED <<fileVars, loadVars, outVars, fwKey, mapKey, entry>>

\* efi_println!("Failed to exit boot services"); loop { }
PrintExitFailed ==
    /\ pc = "exit_failed"
    /\ Println("Failed to exit boot services", "halted")
    /\ UNCHANGED <<fileVars, loadVars, mapKey, err, entry>>

\* CallEntry, announcing the jump on the console first.
CallEntry_Announced ==
    /\ pc = "call_entry"
    /\ ops' = ops \o << Op("con_out", "ok", "Starting kernel", 0, 0, 0),
                        Op("entry", "ok", "", mapKey, 0, 0) >>
    /\ console' = Append(console, "Starting kernel")
    /\ pc' = "entered"
    /\ UNCHANGED <<fileVars, loadVars, consoleFails, conOut, panicCause, fwKey,
                   mapKey, err, entry>>

\* entry(system_table, &mem_map): never returns
CallEntry ==
    /\ pc = "call_entry"
    /\ ops' = Append(ops, Op("entry", "ok", "", mapKey, 0, 0))
    /\ pc' = "entered"
    /\ UNCHANGED <<fileVars, loadVars, outVars, fwKey, mapKey, err, entry>>

\* ------------------------------------------------------------ panic_fmt
\* .expect("could not write to console") on a failed write: panic
ExpectFailed ==
    /\ pc = "expect_failed"
    /\ Panic("console")
    /\ UNCHANGED <<fileVars, loadVars, console, consoleFails, conOut, ops, fwKey,
                   mapKey, err, entry>>

\* efi_println!("Panic at {}:{}:{}")
PanicPrintLocation ==
    /\ pc = "panic1"
    /\ Println("Panic at", "panic2")
    /\ UNCHANGED <<fileVars, loadVars, mapKey, err, entry>>

\* efi_println!("{}", args); loop { }
PanicPrintMessage ==
    /\ pc = "panic2"
    /\ Println("panic message", "halted")
    /\ UNCHANGED <<fileVars, loadVars, mapKey, err, entry>>

Next ==
    \/ PrintReading
    \/ LocateHandle
    \/ OpenVolume
    \/ CheckVolumeLabel
    \/ StrToUtf16
    \/ OpenFile
    \/ GetFileInfo
    \/ AllocateSlice
    \/ FileRead
    \/ PrintReadFailed
    \/ PrintParsing
    \/ ElfNew
    \/ PrintParseFailed
    \/ SanityCheck
    \/ PrintSanityFailed
    \/ PrintLoading
    \/ LoadElfNext
    \/ GetType
    \/ PrintTypeErr
    \/ ComputePlacement
    \/ AllocatePages
    \/ AssertDestination
    \/ SetMem
    \/ CopySegment
    \/ PrintEntry
    \/ PrintLoadFailed
    \/ PrintRetrieving
    \/ GetMemoryMap
    \/ PrintMapFailed
    \/ ExitBootServices
    \/ PrintExitFailed
    \/ CallEntry
    \/ ExpectFailed
    \/ PanicPrintLocation
    \/ PanicPrintMessage

Spec == Init /\ [][Next]_vars

\* The thread of control is the only one and is never suspended: whenever it
\* has a next step it takes one.
FairSpec == Spec /\ WF_vars(Next)

\* ------------------------------------------------- read_file on its own
\* efi_main up to the return of read_file, with every combination of label
\* and fault on the enumerated volumes.
ReadInit ==
    /\ pc = "start"
    /\ volumes \in SeqsUpTo(AllVolumeKinds, MaxVols)
    /\ volIdx = 0
    /\ volRoot = 0
    /\ imageRead = FALSE
    /\ headers = << >>
    /\ phIdx = 0
    /\ destination = 0
    /\ numPages = 0
    /\ allocs = << >>
    /\ mem = << >>
    /\ ops = << >>
    /\ console = << >>
    /\ consoleFails = 0
    /\ conOut \in {"working", "dead"}
    /\ fwKey = 1
    /\ mapKey = 0
    /\ err = "none"
    /\ entry = "none"
    /\ panicCause = "none"
    /\ overflowChecks = "unknown"

ReadNext ==
    \/ PrintReading
    \/ LocateHandle
    \/ OpenVolume
    \/ CheckVolumeLabel
    \/ StrToUtf16
    \/ OpenFile
    \/ GetFileInfo
    \/ AllocateSlice
    \/ FileRead
    \/ PrintReadFailed
    \/ ExpectFailed
    \/ PanicPrintLocation
    \/ PanicPrintMessage

ReadSpec == ReadInit /\ [][ReadNext]_vars

\* ---------------------------------------------- load_section on its own
\* One call of load_section on a loadable header, for addresses at, just
\* after and just before a page boundary and for sizes around the multiples
\* of the page size and at the end of the word.
SectionSizes ==
    { k * PageSize + d : k \in 0..MaxSpanPages, d \in {0, 1, PageMask} }
    \cup { Modulus - d : d \in {1, 2, PageMask, PageSize, PageSize + 1} }

SectionHeaders ==
    { [width |-> 64, kind |-> "Load", V |-> 256 * PageSize + o, F |-> m, M |-> m] :
        o \in {0, 1, PageMask}, m \in SectionSizes }

SectionInit ==
    /\ pc = "compute"
    /\ volumes = << [label |-> VolumeLabel, fault |-> "none"] >>
    /\ volIdx = 1
    /\ volRoot = 1
    /\ imageRead = TRUE
    /\ headers \in { << h >> : h \in SectionHeaders }
    /\ phIdx = 1
    /\ destination = 0
    /\ numPages = 0
    /\ allocs = << >>
    /\ mem = << >>
    /\ ops = << >>
    /\ console = << >>
    /\ consoleFails = 0
    /\ conOut = "working"
    /\ fwKey = 1
    /\ mapKey = 0
    /\ err = "none"
    /\ entry = "none"
    /\ panicCause = "none"
    /\ overflowChecks = "unknown"

SectionNext ==
    \/ ComputePlacement
    \/ AllocatePages
    \/ AssertDestination
    \/ SetMem
    \/ CopySegment

SectionSpec == SectionInit /\ [][SectionNext]_vars

\* ======================================================================
\* Properties
\* ======================================================================
Last(sq) == sq[Len(sq)]

OpsNamed(name) == { i \in DOMAIN ops : ops[i].op = name }
MapCalls == OpsNamed("get_memory_map")
MapsReturned == { i \in MapCalls : ops[i].st = "ok" }
ExitCalls == OpsNamed("exit_boot_services")

\* C1: once get_memory_map has returned a map, exit_boot_services is called
\* exactly once, with the key of that map; get_memory_map is not called a
\* second time and exit_boot_services is not called again, whether the exit
\* call succeeds or fails.
C1_ExitOnceWithMapKey ==
    /\ Cardinality(MapCalls) <= 1
    /\ Cardinality(ExitCalls) <= 1
    /\ \A j \in ExitCalls : \E i \in MapsReturned : i < j /\ ops[j].x = ops[i].x
    /\ (MapsReturned # {} /\ pc # "exit_boot_services") => Cardinality(ExitCalls) = 1

\* C1 witness: the exit call failed and the system has halted.
C1_Witness ==
    /\ pc = "halted"
    /\ \E j \in ExitCalls : ops[j].st # "ok"

\* C2: between the return of get_memory_map and the exit_boot_services call
\* that consumes its key no allocating operation is performed; the last
\* console output before the exit call precedes the map retrieval.
C2_NoAllocationBetweenMapAndExit ==
    /\ pc = "exit_boot_services" => Last(ops).op = "get_memory_map"
    /\ \A i \in MapsReturned : \A j \in ExitCalls :
          /\ i < j
          /\ \A k \in (i + 1)..(j - 1) : ops[k].op \notin Allocating
          /\ \A k \in 1..(j - 1) : ops[k].op = "con_out" => k < i

\* C2 witness: the exit call has been made with the map's key and succeeded.
C2_Witness ==
    /\ pc = "call_entry"
    /\ \E j \in ExitCalls : ops[j].st = "ok" /\ ops[j].x = mapKey

\* C3 (as claimed): an error at or after the memory-map snapshot halts
\* silently: no console output and no other allocating call follows the
\* get_memory_map call.
C3_SilentHaltAfterSnapshot ==
    \A i \in MapCalls : \A k \in (i + 1)..Len(ops) : ops[k].op \notin Allocating

\* The program header load_section has just finished with.
JustLoaded == pc = "load_elf" /\ phIdx > 1 /\ headers[phIdx - 1].kind = "Load"
Prev == headers[phIdx - 1]

\* load_section stopped on the current header after its pages were allocated
\* at the requested address, although the sizes of the header fit the word.
LoadAbandoned ==
    /\ phIdx \in DOMAIN headers
    /\ Hdr.M + PageSize < Modulus
    /\ \E k \in DOMAIN allocs :
          allocs[k].seg = phIdx /\ allocs[k].base = Hdr.V - (Hdr.V % PageSize)
    /\ pc \notin {"assert", "set_mem", "copy"}

\* C4 (as claimed, and only for sizes far from the end of the word): for
\* every loadable segment with F <= M, load_section completes once the
\* allocation succeeded at the requested address, and afterwards bytes
\* [V, V+F) are the source bytes and [V+F, V+M) are zero.
C4_LoadSectionCopiesFileBytes ==
    /\ ~LoadAbandoned
    /\ JustLoaded =>
          /\ \A a \in Prev.V..(Prev.V + Prev.F - 1) :
                ByteAt(a) = SrcByte(phIdx - 1, a - Prev.V)
          /\ \A a \in (Prev.V + Prev.F)..(Prev.V + Prev.M - 1) : ByteAt(a) = 0

\* C5 (as claimed): every loadable segment gets one allocation request, at
\* V rounded down to the page size, for 1 + ((M + V mod 4096) >> 12) pages
\* of LoaderCode, and the span requested reaches past V + M.
C5_AllocationCoversSegment ==
    /\ panicCause # "add_overflow"
    /\ pc = "allocate_pages" =>
          /\ destination = Hdr.V - (Hdr.V % PageSize)
          /\ numPages = 1 + ((Hdr.M + (Hdr.V % PageSize)) \div PageSize)
          /\ destination + PageSize * numPages > Hdr.V + Hdr.M
    /\ \A k \in DOMAIN allocs : allocs[k].type = "LoaderCode"

\* An image with at least one program header, all of the 32-bit width.
Image32 == headers # << >> /\ \A i \in DOMAIN headers : headers[i].width = 32

\* load_elf has been called and has returned.
LoadElfReturned ==
    phIdx >= 1 /\ pc \notin {"load_elf", "get_type", "print_type_err", "compute",
                             "allocate_pages", "assert", "set_mem", "copy",
                             "print_entry"}

PageOps == OpsNamed("allocate_pages") \cup OpsNamed("set_mem") \cup OpsNamed("copy")
PoolOps == OpsNamed("allocate_slice") \cup OpsNamed("str_to_utf16")

\* C6 (as claimed): for a 32-bit image load_elf returns Unsupported, no entry
\* point is produced, and no allocation (pool or page), zero-fill or copy
\* has occurred in the boot attempt before the rejection.
C6_NoAllocationAtAllBeforeRejection ==
    (Image32 /\ LoadElfReturned) =>
        /\ err = "Unsupported"
        /\ entry = "none"
        /\ PageOps = {}
        /\ PoolOps = {}

\* C6 (amended): for a 32-bit image load_elf returns Unsupported at the first
\* entry, no entry point is produced, and no page allocation, zero-fill or
\* copy has occurred; the pool allocations of read_file have.
C6_Ph32RejectedBeforePlacement ==
    Image32 =>
        /\ entry = "none"
        /\ PageOps = {}
        /\ allocs = << >> /\ mem = << >>
        /\ OpsNamed("entry") = {}
        /\ phIdx <= 1
        /\ pc \notin {"get_type", "compute", "allocate_pages", "assert", "set_mem",
                      "copy", "print_entry", "print_retrieving", "get_memory_map",
                      "exit_boot_services", "call_entry", "entered"}
        /\ LoadElfReturned => (err = "Unsupported" /\ PoolOps # {})

\* C6 witness: a 32-bit image was rejected and the system has halted.
C6_Witness == Image32 /\ pc = "halted" /\ err = "Unsupported"

\* C7: a program header of a readable kind other than Load makes load_section
\* return Ok without allocating, zeroing, copying or printing: memory and the
\* allocations are unchanged and load_elf goes on with the next entry.
C7_SkipHasNoEffect ==
    [][ (pc = "get_type" /\ Hdr.kind = "Other") =>
           /\ pc' = "load_elf"
           /\ phIdx' = phIdx + 1
           /\ UNCHANGED <<allocs, mem, ops, console, consoleFails, conOut, fwKey, err,
                          entry, destination, numPages, panicCause>> ]_vars

\* C7 witness: an entry was skipped and the entry after it was loaded.
C7_Witness ==
    /\ pc = "load_elf" /\ phIdx = 3
    /\ headers[1].kind = "Other" /\ headers[2].kind = "Load"

\* allocate_pages calls that succeeded at another base than the one requested.
Misplaced ==
    { i \in OpsNamed("allocate_pages") : ops[i].st = "ok" /\ ops[i].y # ops[i].x }

\* C8: when allocate_pages succeeds at another base than requested the system
\* halts: the segment is neither zeroed nor copied, no later segment is
\* allocated or copied, the memory map is not retrieved, boot services are
\* not exited and the entry point is not invoked.
C8_MisplacedAllocationHalts ==
    \A i \in Misplaced :
        /\ pc \in {"assert", "expect_failed", "panic1", "panic2", "halted"}
        /\ \A j \in (i + 1)..Len(ops) : ops[j].op = "con_out"
        /\ \A k \in DOMAIN mem : mem[k].seg # phIdx
        /\ mapKey = 0

\* C8 witness: the assertion failed, the panic handler ran, the system halted.
C8_Witness == pc = "halted" /\ Misplaced # {} /\ panicCause = "assert"

\* The stage of the boot sequence a position belongs to: 0 Init,
\* 1 ImageAcquired, 2 ImageValidated, 3 SegmentsLoaded, 4 MapSnapshotted,
\* 5 ServicesExited, 6 EntryInvoked, 7 failed (on the way to Halted, or there).
Stage(p) ==
    CASE p \in {"start", "locate_handle", "open_volume", "volume_label",
                "str_to_utf16", "open_file", "file_info", "allocate_slice",
                "file_read"} -> 0
      [] p \in {"print_parsing", "elf_new", "sanity_check"} -> 1
      [] p \in {"print_loading", "load_elf", "get_type", "print_type_err", "compute",
                "allocate_pages", "assert", "set_mem", "copy", "print_entry"} -> 2
      [] p \in {"print_retrieving", "get_memory_map"} -> 3
      [] p = "exit_boot_services" -> 4
      [] p = "call_entry" -> 5
      [] p = "entered" -> 6
      [] OTHER -> 7

\* Everything the invocation of the entry point rests on.
EntryPreconditions ==
    /\ Cardinality(OpsNamed("entry")) = 1
    /\ imageRead
    /\ err = "none" /\ panicCause = "none"
    /\ phIdx = Len(headers) + 1
    /\ entry = "fn"
    /\ \E i \in MapsReturned : \E j \in ExitCalls :
          i < j /\ ops[j].st = "ok" /\ ops[j].x = ops[i].x /\ Last(ops).x = ops[i].x

\* C9: the boot sequence only moves forward through its stages; the entry
\* point is invoked at most once, and only after the image was read, parsed
\* and checked, every program header was processed, a memory map was
\* retrieved and exit_boot_services succeeded.
C9_ForwardOnly ==
    [][ /\ Stage(pc') >= Stage(pc)
        /\ pc = "entered" => pc' = "entered"
        /\ pc' = "entered" => EntryPreconditions' ]_vars

\* C9 witness: the entry point has been invoked.
C9_Witness == pc = "entered" /\ Len(headers) = 2 /\ Len(allocs) = 2

FailedPcs ==
    {"read_failed", "parse_failed", "sanity_failed", "load_failed", "map_failed",
     "exit_failed", "expect_failed", "panic1", "panic2", "halted"}

\* C10 (as claimed): every firmware call that returns an error status before
\* the memory-map snapshot, opening a volume and querying its label included,
\* leads to a diagnostic and to Halted: once the enumeration of the volumes
\* is over, the sequence does not go on.
C10_EveryFailureHalts ==
    (MapCalls = {} /\ \E i \in DOMAIN ops : ops[i].st # "ok")
        => pc \in FailedPcs \cup {"open_volume", "volume_label"}

\* Failed firmware calls other than those read_file skips over.
Propagated ==
    { i \in DOMAIN ops : ops[i].st # "ok" /\ ops[i].op \notin {"open_volume", "volume_label"} }

\* C10 (amended): every failure before the memory-map snapshot that read_file,
\* the ELF checks or load_elf report (a failure to open a volume or to query
\* its label only makes read_file skip that volume) stops the sequence, and
\* the system halts only after the diagnostic of that failure was written to
\* the console, or that of the panic handler when a console write failed.
C10_ReportedFailureHalts ==
    MapCalls = {} =>
        /\ (err # "none" \/ Propagated # {}) => pc \in FailedPcs
        /\ pc = "halted" =>
              /\ console # << >>
              /\ Last(ops) = Op("con_out", "ok", Last(console), 0, 0, 0)
              /\ IF panicCause # "none"
                 THEN Last(console) = "panic message"
                 ELSE /\ err # "none"
                      /\ Last(console) =
                            CASE err = "ParseError" -> "Failed to parse ELF image"
                              [] err = "SanityError" -> "ELF sanity check failed"
                              [] ~imageRead -> "Failed to read kernel"
                              [] OTHER -> "Failed to load kernel"
                      /\ err = "InvalidParameter" =>
                            \E k \in DOMAIN console : console[k] = "Failed to read section type"

\* C10 witness: no volume carried the label although one was skipped because
\* it could not be opened; the diagnostic was written and the system halted.
C10_Witness ==
    /\ pc = "halted" /\ err = "NotFound"
    /\ \E i \in OpsNamed("open_volume") : ops[i].st # "ok"

\* C11 (as claimed): every failure path reaches the idle loop: whatever step
\* fails, a console write inside a diagnostic or inside the panic handler
\* included, the system is Halted after finitely many steps.
C11_EveryFailureHalts == (pc \in FailedPcs) ~> (pc = "halted")

\* ----------------------------------------------------------------- C12
\* The volumes that carry the configured label, and those of them that
\* read_file can open and query.
Labelled == { i \in DOMAIN volumes : volumes[i].label = VolumeLabel }
Usable == { i \in Labelled : volumes[i].fault = "none" }

FileOps == {"str_to_utf16", "open_file", "file_info", "allocate_slice", "file_read"}
Enumerated == \E i \in OpsNamed("locate_handle") : ops[i].st = "ok"

\* The volume found is the first of the set S, every file operation is made
\* on it, and when the enumeration succeeded and S is empty read_file
\* returns NotFound, no file is opened, no buffer allocated, and efi_main
\* goes to its diagnostic and the idle loop only.
SelectsFirstOf(S) ==
    /\ volRoot # 0 => volRoot \in S /\ \A j \in S : volRoot <= j
    /\ \A i \in DOMAIN ops : ops[i].op \in FileOps => ops[i].x = volRoot /\ volRoot # 0
    /\ (Enumerated /\ S = {}) =>
          /\ volRoot = 0
          /\ err \in {"none", "NotFound"}
          /\ pc \in {"open_volume", "volume_label", "read_failed", "halted",
                      "expect_failed", "panic1", "panic2"}
          /\ (pc = "read_failed" \/ pc = "halted") => err = "NotFound"
          /\ (pc = "halted" /\ panicCause = "none") =>
                Last(console) = "Failed to read kernel"

\* C12 (as claimed): the volume used is the first one in enumeration order
\* whose label equals the configured label; with no such volume read_file
\* returns NotFound without opening a file or allocating the buffer, and
\* efi_main prints the diagnostic and halts.
C12_FirstLabelledVolume == SelectsFirstOf(Labelled)

\* C12 (amended): the volume used is the first one in enumeration order,
\* among the volumes that could be opened and whose label could be read,
\* whose label equals the configured label exactly; with no such volume
\* read_file returns NotFound without opening a file or allocating the
\* buffer, and efi_main goes on to nothing but its diagnostic and the idle
\* loop; NotFound is returned in no other case.
C12_FirstUsableLabelledVolume ==
    /\ SelectsFirstOf(Usable)
    /\ err = "NotFound" => Usable = {}

\* Two volumes share the label and the first of them is the one read.
C12_Witness ==
    /\ Len(volumes) = 2
    /\ Usable = {1, 2}
    /\ volRoot = 1
    /\ pc = "print_parsing"
    /\ \E i \in OpsNamed("file_read") : ops[i].x = 1
\* ----------------------------------------------------------------- C13
\* The steps of the sequence that follow the reading of the image.
LaterSteps ==
    {"allocate_pages", "set_mem", "copy", "get_memory_map", "exit_boot_services",
     "entry"}

\* Call j repeats call i: the same operation on the same object.
Repeats(i, j) ==
    ops[j].op = ops[i].op /\ ops[j].x = ops[i].x /\ ops[j].msg = ops[i].msg

\* C13 (as claimed): after any step has failed no later step of the sequence
\* is executed and the failed operation is not invoked again.
C13_NothingAfterAnyFailure ==
    \A i \in DOMAIN ops : \A j \in (i + 1)..Len(ops) :
        ops[i].st # "ok" => (ops[j].op \notin LaterSteps /\ ~Repeats(i, j))

\* The failure of a step has been reported, or a panic raised.
Failing == pc \in FailedPcs \cup {"print_type_err"}

\* C13 (amended): Halted is absorbing, and once a step has failed (a failure
\* to open a volume or to query its label aside, which makes read_file skip
\* that volume and never visit it again) nothing follows but writes to the
\* console: no page allocation, zero-fill, copy, memory-map retrieval,
\* exit_boot_services call or entry invocation, and no firmware call that
\* failed is made again, except that the panic handler writes to the
\* console after a console write has failed.
C13_NothingAfterReportedFailure ==
    [][ /\ pc = "halted" => UNCHANGED vars
        /\ Failing =>
              /\ Failing'
              /\ pc' # "print_type_err"
              /\ UNCHANGED <<fileVars, loadVars, mapKey, entry>>
              /\ ops' # ops => (ops' = Append(ops, Last(ops')) /\ Last(ops').op = "con_out")
        /\ ops' # ops =>
              /\ ops' = Append(ops, Last(ops'))
              /\ \A i \in DOMAIN ops :
                    ops[i].st # "ok" =>
                       /\ i \in Propagated => Last(ops').op = "con_out"
                       /\ ops[i].op # "con_out" =>
                             ~(/\ Last(ops').op = ops[i].op
                               /\ Last(ops').x = ops[i].x
                               /\ Last(ops').msg = ops[i].msg) ]_vars

\* C13 witness: the second segment could not be allocated; the first one
\* stays loaded, the diagnostic was written and the system has halted.
C13_Witness ==
    /\ pc = "halted"
    /\ Len(allocs) = 1 /\ phIdx = 2
    /\ \E i \in OpsNamed("allocate_pages") : ops[i].st # "ok" /\ i > 1
    /\ Last(console) = "Failed to load kernel"
\* ----------------------------------------------------------------- C14
\* The padded span of the current header, as load_section computes it, and
\* the least number of pages that hold it.
PaddedSpan == ((Hdr.V % PageSize) + Hdr.M) % Modulus
MinPages(S) == (S + PageSize - 1) \div PageSize

\* load_section has computed the page count of the current header.
PagesComputed == pc \in {"allocate_pages", "assert", "set_mem", "copy"}

\* C14: the page count 1 + (S >> 12) of a padded span S is at least the
\* minimal count ceil(S / 4096); it equals it when S is not a multiple of
\* 4096 and exceeds it by exactly one page when S is one, S = 0 included.
C14_PageCountAgainstMinimum ==
    PagesComputed =>
        /\ numPages >= MinPages(PaddedSpan)
        /\ PaddedSpan % PageSize # 0 => numPages = MinPages(PaddedSpan)
        /\ PaddedSpan % PageSize = 0 => numPages = MinPages(PaddedSpan) + 1

\* C14 witness: a span of exactly two pages was given three.
C14_Witness ==
    /\ pc = "allocate_pages"
    /\ PaddedSpan = 2 * PageSize
    /\ Hdr.V % PageSize = 1
    /\ numPages = 3
\* ----------------------------------------------------------------- C15
\* The allocation made for segment g and verified by the assertion: its
\* base is the aligned address of the segment.
VerifiedAllocs(g) ==
    { a \in DOMAIN allocs :
        allocs[a].seg = g /\ allocs[a].base = AlignDown(headers[g].V) }

\* C15: within the load of one segment the steps come in the order allocate,
\* verify, zero-fill, copy: nothing is written before the allocation has
\* succeeded and been verified, the zero-fill covers pages*4096 bytes from
\* the aligned base, and the copy comes only after the zero-fill.
C15_AllocateVerifyZeroCopy ==
    /\ pc \in {"compute", "allocate_pages", "assert"} =>
          \A k \in DOMAIN mem : mem[k].seg # phIdx
    /\ \A k \in DOMAIN mem :
          /\ VerifiedAllocs(mem[k].seg) # {}
          /\ mem[k].kind = "zero" =>
                \A a \in VerifiedAllocs(mem[k].seg) :
                    /\ mem[k].lo = allocs[a].base
                    /\ mem[k].len = allocs[a].pages * PageSize
          /\ mem[k].kind = "copy" =>
                /\ k > 1
                /\ mem[k - 1].kind = "zero" /\ mem[k - 1].seg = mem[k].seg
    /\ \A j \in OpsNamed("set_mem") :
          /\ j > 1
          /\ ops[j - 1] = Op("allocate_pages", "ok", "", ops[j].x, ops[j].x,
                             ops[j - 1].n)
          /\ ops[j].n = ops[j - 1].n * PageSize
    /\ \A j \in OpsNamed("copy") : j > 1 /\ ops[j - 1].op = "set_mem"

\* C15 witness: a segment of two pages and one of one page were loaded.
C15_Witness ==
    /\ pc = "load_elf" /\ phIdx = 3
    /\ Len(mem) = 4
    /\ allocs[1].pages = 2 /\ allocs[2].pages = 1
    /\ mem[1].len = 2 * PageSize /\ mem[3].len = PageSize
\* ----------------------------------------------------------------- C16
\* Entry g was processed to its end: skipped, or allocated at its aligned
\* address, zeroed and copied.
Processed(g) ==
    \/ headers[g].kind = "Other"
    \/ /\ headers[g].kind = "Load"
       /\ VerifiedAllocs(g) # {}
       /\ \E k \in DOMAIN mem : mem[k].seg = g /\ mem[k].kind = "copy"

\* load_elf has returned an error status at the current entry.
LoadFailedAt == phIdx \in DOMAIN headers /\ err # "none"

\* Entries are taken in table order, each one processed to its end before
\* the next, and an entry that failed has nothing allocated or written.
InTableOrder ==
    /\ \A g \in 1..(phIdx - 1) : Processed(g)
    /\ \A a \in DOMAIN allocs : allocs[a].seg \in DOMAIN headers /\ allocs[a].seg <= phIdx
    /\ \A a, b \in DOMAIN allocs : a < b => allocs[a].seg < allocs[b].seg
    /\ \A k \in DOMAIN mem : mem[k].seg \in DOMAIN headers /\ mem[k].seg <= phIdx
    /\ (LoadFailedAt \/ pc = "print_type_err") =>
          /\ \A a \in DOMAIN allocs : allocs[a].seg < phIdx
          /\ \A k \in DOMAIN mem : mem[k].seg < phIdx
    /\ (LoadFailedAt /\ Hdr.width = 64) =>
          /\ Hdr.kind # "Other"
          /\ Hdr.kind = "Err" => err = "InvalidParameter"
          /\ Hdr.kind = "Load" =>
                /\ err \in FwErrors
                /\ \E j \in OpsNamed("allocate_pages") :
                      /\ ops[j].st = err /\ ops[j].x = AlignDown(Hdr.V)
                      /\ \A l \in (j + 1)..Len(ops) : ops[l].op = "con_out"

\* C16: program headers are processed in table order, and when entry i
\* fails (unreadable kind: InvalidParameter; allocate_pages: its error
\* status) load_elf returns that error at once: nothing is allocated, zeroed
\* or copied for i or any later entry, and the pages of the entries before i
\* stay allocated with their contents unchanged.
C16_FailedEntryStopsLoad ==
    [][ /\ InTableOrder'
        /\ phIdx' \in {phIdx, phIdx + 1}
        /\ Len(allocs') >= Len(allocs) /\ SubSeq(allocs', 1, Len(allocs)) = allocs
        /\ Len(mem') >= Len(mem) /\ SubSeq(mem', 1, Len(mem)) = mem
        /\ (LoadFailedAt \/ pc = "print_type_err") => UNCHANGED <<allocs, mem, phIdx>> ]_vars

\* C16 witness: the kind of the second entry could not be read; the first
\* segment stays loaded and the system has halted on InvalidParameter.
C16_Witness ==
    /\ pc = "halted" /\ err = "InvalidParameter"
    /\ Len(headers) = 2 /\ phIdx = 2 /\ headers[2].kind = "Err"
    /\ Len(allocs) = 1 /\ Len(mem) = 2
\* ----------------------------------------------------------------- C17
\* exit_boot_services calls that returned success.
ExitedOk == { j \in ExitCalls : ops[j].st = "ok" }

\* Nothing but the one invocation of the entry point, with the map whose
\* key was passed, follows a successful exit.
OnlyEntryAfterExit ==
    ExitedOk # {} =>
        /\ pc \in {"call_entry", "entered"}
        /\ panicCause = "none" /\ err = "none"
        /\ \A j \in ExitedOk : \A k \in (j + 1)..Len(ops) :
              k = j + 1 /\ ops[k] = Op("entry", "ok", "", ops[j].x, 0, 0)
        /\ pc = "entered" => Last(ops).op = "entry"

\* C17: after exit_boot_services has returned success no firmware service
\* and no console output is used again: the only step that follows is the
\* single invocation of the entry point with the memory map whose key was
\* passed to exit_boot_services, and the panic handler is never entered.
C17_NothingButEntryAfterExit ==
    [][ /\ OnlyEntryAfterExit'
        /\ ExitedOk # {} =>
              /\ UNCHANGED <<console, consoleFails, fwKey, mapKey, allocs, mem, entry>>
              /\ pc = "call_entry" => pc' = "entered"
              /\ pc = "entered" => UNCHANGED vars ]_vars

\* C17 witness: the entry point was invoked right after the successful exit,
\* the last console output being the one before the memory map.
C17_Witness ==
    /\ pc = "entered"
    /\ Len(ops) - 1 \in ExitedOk
    /\ Last(ops).op = "entry"
    /\ Last(console) = "Retrieving memory map"
\* ----------------------------------------------------------------- C18
\* C18 (as claimed): for every V and M of the word, the sum M + (V mod 4096)
\* and the product pages*4096 do not wrap, the segment [V, V+M) lies inside
\* the pages [base, base + pages*4096) requested for it, and so does every
\* byte the zero-fill and the copy write.
C18_SegmentInsideItsPages ==
    /\ overflowChecks # "off"
    /\ pc \in {"allocate_pages", "set_mem", "copy"} =>
          /\ destination <= Hdr.V
          /\ Hdr.V + Hdr.M <= destination + numPages * PageSize
    /\ \A k \in DOMAIN mem : \E a \in DOMAIN allocs :
          /\ allocs[a].seg = mem[k].seg
          /\ allocs[a].base <= mem[k].lo
          /\ mem[k].lo + mem[k].len <= allocs[a].base + allocs[a].pages * PageSize
====
